---- MODULE Spec2Model ----
(***************************************************************************)
(* Clinic management system (src/main.py): the data lifecycle operations   *)
(* of DentalClinicDB (export_db, import_db, update_setting) and the        *)
(* Settings-screen handlers of DentalClinicApp that call them.  The        *)
(* settings table is the content of the store; the two settings saves are  *)
(* the committed write transactions on it.                                 *)
(*                                                                         *)
(* The primary store is the file dental_clinic.db, the backup artifact the *)
(* file dental_clinic_backup.db.  A file is a sequence of pages.  Every    *)
(* committed SQLite transaction rewrites page 1 (the header's change       *)
(* counter) and the pages of the table it touches, so a page is modelled   *)
(* by the store state it was written from: the image of a store state s is *)
(* NPages pages <<s>>, a truncated file is a shorter sequence, a torn file *)
(* holds pages of different states, and a page skipped by a write past the *)
(* end of the file is a hole (zero bytes).                                 *)
(*                                                                         *)
(* Event handlers are plain (non-async) functions registered with on_click *)
(* and on_change; the UI runtime started by ft.app runs each on a worker   *)
(* thread, and the source takes no lock and sets no busy flag, so the      *)
(* steps of handlers in flight interleave.  shutil.copy2 is not atomic:    *)
(* it opens the source, opens (truncates) the destination, copies chunk by *)
(* chunk and then copies the file metadata; each of these can raise.       *)
(*                                                                         *)
(* The clinic's own tables (patients, doctors, appointments, invoices,     *)
(* medical_history, treatments) are followed apart from the files, as the  *)
(* rows committed to them: SpecStartup is init_db on the file the program  *)
(* finds, SpecScheduling the patients, doctors and appointments screens,   *)
(* SpecRecords the invoices screen and delete_patient, whose statements    *)
(* are steps of one SQLite transaction.  A row that a query returns is the *)
(* tuple fetchall gives, indexed as the handlers index it.                 *)
(* SpecCredentials is the login page and the credentials section of the    *)
(* settings screen, on the users table.                                    *)
(***************************************************************************)
EXTENDS Integers, Sequences, FiniteSets, TLC

VARIABLES
    db,        \* the file at self.db_path ("dental_clinic.db")
    backup,    \* the file at "dental_clinic_backup.db"
    app,       \* DentalClinicApp's own settings: self.language, self.dark_mode
    pc,        \* per worker thread: position of the handler it runs
    op,        \* per worker thread: the handler it runs
    pos,       \* per worker thread: copy2's offset (next page to copy)
    ret,       \* per worker thread: <<>> or <<value returned by the db method>>
    callDb,    \* history, per worker thread: db as it was when the db
               \* method was called
    sealed,    \* history: TRUE once some export_db has returned True
    writes,    \* history: number of write transactions committed so far
    boot,      \* DentalClinicDB.__init__: the store file init_db finds and
               \* what it has made of it
    tables,    \* the committed rows of the clinic's tables, with the
               \* AUTOINCREMENT counters (sqlite_sequence)
    dp,        \* the delete_patient call in progress: its argument and
               \* the statements its connection has executed
    pre,       \* history: tables as they were when delete_patient was called
    auth       \* the users table and DentalClinicApp's login state, with
               \* the snack bar last shown and (history) the credentials
               \* last entered on the settings screen

vars == <<db, backup, app, pc, op, pos, ret, callDb, sealed, writes,
          boot, tables, dp, pre, auth>>

\* The state of the data lifecycle operations, and the state of the rest.
lifecycleVars == <<db, backup, app, pc, op, pos, ret, callDb, sealed, writes>>
clinicVars == <<boot, tables, dp, pre, auth>>

\* Bounds of the model: the worker threads running handlers, the pages of
\* a database image, the write transactions committed in a behaviour, and
\* of those the ones committed while handlers may overlap (Spec).
NThreads == 2
NPages == 2
MaxWrites == 2
PoolWrites == 1

Threads == 1..NThreads

\* ---------------------------------------------------------------- store

Languages == {"English", "Arabic"}

\* init_db: the default settings rows.
DefaultSettings == [language |-> "English", dark_mode |-> "False"]

InitStore == [settings |-> DefaultSettings]

\* ---------------------------------------------------------------- files

Absent == [exists |-> FALSE, pages |-> <<>>]

File(pages) == [exists |-> TRUE, pages |-> pages]

Hole == <<>>

Image(s) == [i \in 1..NPages |-> <<s>>]

\* The file is the complete image of one committed store state.
IsImage(f) ==
    /\ f.exists
    /\ Len(f.pages) = NPages
    /\ \A i \in 1..NPages : f.pages[i] # Hole /\ f.pages[i] = f.pages[1]

\* What a SQLite connection reads from a well-formed file.
Store(f) == f.pages[1][1]

\* open(dst, 'wb'): creates the file or truncates it to zero length.
Truncate(f) == File(<<>>)

\* write of one page at offset i by a descriptor with its own offset; a
\* write past the end leaves a hole before it.
WriteAt(f, i, page) ==
    LET n == Len(f.pages)
        m == IF i > n THEN i ELSE n
    IN File([k \in 1..m |-> IF k = i THEN page
                              ELSE IF k <= n THEN f.pages[k] ELSE Hole])

\* ------------------------------------------------- DentalClinicDB writes

\* update_setting with the key dropped from the statement: every row gets
\* the value.
update_setting_all_rows(s, key, value) ==
    [s EXCEPT !.settings = [k \in DOMAIN @ |-> value]]

\* update_setting: INSERT OR REPLACE on the UNIQUE key: the row of `key`
\* gets `value`, every other row is left as it is.  (The row's id changes;
\* no query reads it.)
update_setting(s, key, value) ==
    [s EXCEPT !.settings = [@ EXCEPT ![key] = value]]

\* get_setting as __init__ reads it: self.dark_mode is the stored text
\* compared with "True", self.language the stored text.
LoadSettings(st) ==
    [language |-> st.language, dark_mode |-> (st.dark_mode = "True")]

\* str(is_dark), as toggle_dark_mode stores it.
Str(b) == IF b THEN "True" ELSE "False"

\* The rows the store would hold if every field of the app's settings were
\* written to it.
Persisted(a) == [language |-> a.language, dark_mode |-> Str(a.dark_mode)]

\* A handler that sets a field of the app and then calls update_setting.
\* The transaction commits on a database image; on any other file SQLite
\* raises, the handler ends there and nothing is written (a handler that
\* then changes nothing at all is left out: it is a stuttering step).
SaveSetting(newApp, key, value) ==
    /\ app' = newApp
    /\ IF IsImage(db)
       THEN /\ writes < MaxWrites
            /\ db' = File(Image(update_setting(Store(db), key, value)))
            /\ writes' = writes + 1
       ELSE /\ app # newApp
            /\ UNCHANGED <<db, writes>>
    /\ UNCHANGED <<backup, pc, op, pos, ret, callDb, sealed, clinicVars>>

\* update_language (on_change of the language dropdown).
update_language ==
    \E language \in Languages :
        SaveSetting([app EXCEPT !.language = language], "language", language)

\* toggle_dark_mode (on_change of the dark mode switch).
toggle_dark_mode ==
    \E is_dark \in BOOLEAN :
        SaveSetting([app EXCEPT !.dark_mode = is_dark], "dark_mode", Str(is_dark))

CrudWrite == update_language \/ toggle_dark_mode

\* ------------------------------------------------ lifecycle operations

\* The value a db method returns: a bare Python bool.
PyBool(b) == [ok |-> b]

Src(t) == IF op[t] = "export" THEN db ELSE backup

Idle(t) == pc[t] = "idle"

\* Settings screen, Export Database button: export_db(e) calls
\* self.db.export_db("dental_clinic_backup.db").
ClickExport(t) ==
    /\ Idle(t)
    /\ pc' = [pc EXCEPT ![t] = "open"]
    /\ op' = [op EXCEPT ![t] = "export"]
    /\ UNCHANGED <<db, backup, app, pos, ret, callDb, sealed, writes, clinicVars>>

\* Settings screen, Import Database button: import_db(e) calls
\* self.db.import_db only if os.path.exists(import_path); otherwise it
\* shows "Failed to import database" and no state changes.
\* import_db opens and closes a connection, which reads and writes nothing.
ClickImport(t) ==
    /\ Idle(t)
    /\ backup.exists
    /\ pc' = [pc EXCEPT ![t] = "open"]
    /\ op' = [op EXCEPT ![t] = "import"]
    /\ UNCHANGED <<db, backup, app, pos, ret, callDb, sealed, writes, clinicVars>>

\* The except clause: the error is printed and False returned.
ReturnFalse(t) ==
    /\ pc' = [pc EXCEPT ![t] = "done"]
    /\ ret' = [ret EXCEPT ![t] = <<PyBool(FALSE)>>]

\* copy2, opening the files: open(src, 'rb') raises if src is missing;
\* open(dst, 'wb') raises (permissions, read-only volume) or truncates dst.
CopyOpen(t) ==
    /\ pc[t] = "open"
    /\ \E fails \in BOOLEAN :
         IF fails \/ ~Src(t).exists
         THEN /\ ReturnFalse(t)
              /\ UNCHANGED <<db, backup, pos>>
         ELSE /\ pc' = [pc EXCEPT ![t] = "copy"]
              /\ pos' = [pos EXCEPT ![t] = 1]
              /\ IF op[t] = "export"
                 THEN backup' = Truncate(backup) /\ db' = db
                 ELSE db' = Truncate(db) /\ backup' = backup
              /\ ret' = ret
    /\ callDb' = [callDb EXCEPT ![t] = db]
    /\ UNCHANGED <<app, op, sealed, writes, clinicVars>>

\* copy2, one round of the copy loop: at end of file the loop ends;
\* otherwise the next page is read from src and written to dst, which
\* raises when the write fails (disk full, I/O error).
CopyChunk(t) ==
    /\ pc[t] = "copy"
    /\ IF pos[t] > Len(Src(t).pages)
       THEN /\ pc' = [pc EXCEPT ![t] = "stat"]
            /\ UNCHANGED <<db, backup, pos, ret>>
       ELSE \E fails \in BOOLEAN :
              IF fails
              THEN /\ ReturnFalse(t)
                   /\ UNCHANGED <<db, backup, pos>>
              ELSE /\ IF op[t] = "export"
                      THEN /\ backup' = WriteAt(backup, pos[t], db.pages[pos[t]])
                           /\ db' = db
                      ELSE /\ db' = WriteAt(db, pos[t], backup.pages[pos[t]])
                           /\ backup' = backup
                   /\ pos' = [pos EXCEPT ![t] = @ + 1]
                   /\ UNCHANGED <<pc, ret>>
    /\ UNCHANGED <<app, op, callDb, sealed, writes, clinicVars>>

\* copy2, copystat, then `return True`; copystat raises when the
\* metadata cannot be set.
CopyStat(t) ==
    /\ pc[t] = "stat"
    /\ \E fails \in BOOLEAN :
         IF fails
         THEN /\ ReturnFalse(t)
              /\ sealed' = sealed
         ELSE /\ pc' = [pc EXCEPT ![t] = "done"]
              /\ ret' = [ret EXCEPT ![t] = <<PyBool(TRUE)>>]
              /\ sealed' = (sealed \/ op[t] = "export")
    /\ UNCHANGED <<db, backup, app, op, pos, callDb, writes, clinicVars>>

\* The handler shows its snack bar and ends.
HandlerEnd(t) ==
    /\ pc[t] = "done"
    /\ pc' = [pc EXCEPT ![t] = "idle"]
    /\ op' = [op EXCEPT ![t] = "none"]
    /\ pos' = [pos EXCEPT ![t] = 0]
    /\ ret' = [ret EXCEPT ![t] = <<>>]
    /\ callDb' = [callDb EXCEPT ![t] = Absent]
    /\ UNCHANGED <<db, backup, app, sealed, writes, clinicVars>>

Lifecycle(t) ==
    \/ ClickExport(t)
    \/ ClickImport(t)
    \/ CopyOpen(t)
    \/ CopyChunk(t)
    \/ CopyStat(t)
    \/ HandlerEnd(t)

\* ---------------------------------------------- DentalClinicDB.__init__

\* The part of a store file that init_db reads and writes: the settings
\* rows (key -> value, the key is UNIQUE) and the users rows (username ->
\* stored password hash, the username is UNIQUE).
StoreFile(settings, users) == [settings |-> settings, users |-> users]

\* A partial table: the rows with the keys in `keys`.
Rows(keys, values) == [k \in keys |-> values[k]]

\* The file sqlite3.connect creates when there is none: no table, no row.
EmptyStore == StoreFile(Rows({}, <<>>), Rows({}, <<>>))

\* hashlib.sha256(password.encode()).hexdigest().
sha256(password) == "sha256:" \o password

\* init_db's default user.
DefaultUsers == [admin |-> sha256("admin")]

\* init_db's "SELECT ...; if not cursor.fetchone(): INSERT ..." for every
\* default row: a row is inserted only when no row has its key.
InsertMissing(table, defaults) ==
    [k \in DOMAIN table \cup DOMAIN defaults |->
        IF k \in DOMAIN table THEN table[k] ELSE defaults[k]]

\* init_db: CREATE TABLE IF NOT EXISTS, the default user, the default
\* settings, one commit.
init_db(s) ==
    StoreFile(InsertMissing(s.settings, DefaultSettings),
              InsertMissing(s.users, DefaultUsers))

\* get_setting: <<value>> of the row of `key`, <<>> (None) without one.
get_setting(s, key) ==
    IF key \in DOMAIN s.settings THEN <<s.settings[key]>> ELSE <<>>

\* The settings rows a store file may hold when the program starts: any of
\* the keys of the settings record, each with one of its values.
SettingValues ==
    [language |-> Languages,
     dark_mode |-> {"True", "False"},
     username |-> {"admin"},
     encrypt_backups |-> {"True", "False"},
     encryption_key |-> {"key"}]

SettingsTables ==
    UNION {{f \in [keys -> UNION {SettingValues[k] : k \in keys}] :
               \A k \in keys : f[k] \in SettingValues[k]} :
           keys \in SUBSET DOMAIN SettingValues}

UsersTables == {Rows({}, <<>>), DefaultUsers, [admin |-> sha256("secret")]}

StoreFiles == {StoreFile(s, u) : s \in SettingsTables, u \in UsersTables}

\* DentalClinicDB.__init__ has run on a first install.
FirstRun ==
    [phase |-> "ready", found |-> EmptyStore, store |-> init_db(EmptyStore)]

\* DentalClinicDB.__init__: init_db on the file at db_path.
Construct ==
    /\ boot.phase = "start"
    /\ boot' = [phase |-> "ready", found |-> boot.found,
                store |-> init_db(boot.found)]
    /\ UNCHANGED <<lifecycleVars, tables, dp, pre, auth>>

\* -------------------------------------------------------- clinic tables

\* Bounds: the rows ever inserted into each table, and the largest amount
\* typed into an invoice dialog.
MaxPatients == 2
MaxDoctors == 1
MaxAppointments == 2
MaxInvoices == 1
MaxHistory == 1
MaxAmount == 2

\* date.today().strftime("%Y-%m-%d") and the texts typed into the dialogs.
Today == "2026-11-05"
Dates == {Today, "2026-11-06"}
Times == {"09:00"}
NotesTexts == {"checkup"}
Services == {"cleaning"}
PatientNames == {"Ali"}
DoctorNames == {"Sara"}

\* The options of the edit dialog's status dropdown.
Statuses == {"scheduled", "completed", "cancelled"}

\* Of these, the choice the model follows: "scheduled" is what
\* add_appointment stores and "completed" what complete_appointment stores.
StatusChoices == Statuses \ {"scheduled", "completed"}

\* CURRENT_TIMESTAMP, the default of every created_at column.
CurrentTimestamp == "2026-11-05 08:00:00"

\* The amounts (REAL columns, Python floats) the model follows.
Amounts == (0 - MaxAmount)..MaxAmount

\* The tables with no row.  seq holds the AUTOINCREMENT counters: an id is
\* never given twice, also after its row is deleted.  Columns no query of
\* the model reads (age, phone, allergies, ...) are left out of the rows.
EmptyTables ==
    [patients |-> {}, doctors |-> {}, appointments |-> {}, invoices |-> {},
     medical_history |-> {}, treatments |-> {},
     seq |-> [patients |-> 0, doctors |-> 0, appointments |-> 0,
              invoices |-> 0, medical_history |-> 0]]

\* INSERT INTO <table>: the row gets the next id of the table.
Insert(t, table, row) ==
    LET id == t.seq[table] + 1
    IN [t EXCEPT ![table] = @ \cup {[id |-> id] @@ row},
                 !.seq[table] = id]

\* DELETE FROM <table> WHERE <column> = ?
Delete(t, table, column, value) ==
    [t EXCEPT ![table] = {r \in @ : r[column] # value}]

add_patient(t, name) == Insert(t, "patients", [name |-> name])

add_medical_history(t, patient_id) ==
    Insert(t, "medical_history", [patient_id |-> patient_id])

add_doctor(t, name) == Insert(t, "doctors", [name |-> name])

delete_doctor(t, doctor_id) == Delete(t, "doctors", "id", doctor_id)

\* add_appointment: status and created_at get their column defaults.
add_appointment(t, patient_id, doctor_id, date, time, notes) ==
    Insert(t, "appointments",
           [patient_id |-> patient_id, doctor_id |-> doctor_id,
            date |-> date, time |-> time, notes |-> notes,
            status |-> "scheduled", created_at |-> CurrentTimestamp])

\* update_appointment: UPDATE ... SET the six columns WHERE id = ?
update_appointment(t, appointment_id, patient_id, doctor_id, date, time, notes, status) ==
    [t EXCEPT !.appointments =
        {IF r.id = appointment_id
         THEN [r EXCEPT !.patient_id = patient_id, !.doctor_id = doctor_id,
                        !.date = date, !.time = time, !.notes = notes,
                        !.status = status]
         ELSE r : r \in @}]

delete_appointment(t, appointment_id) ==
    Delete(t, "appointments", "id", appointment_id)

\* add_invoice with the payment left out of the balance.
add_invoice_balance_is_total(t, patient_id, service_provided, total_cost, amount_paid) ==
    Insert(t, "invoices",
           [patient_id |-> patient_id,
            service_provided |-> service_provided,
            total_cost |-> total_cost, amount_paid |-> amount_paid,
            remaining_balance |-> total_cost,
            created_at |-> CurrentTimestamp])

\* add_invoice: remaining_balance is computed from the two amounts.
add_invoice(t, patient_id, service_provided, total_cost, amount_paid) ==
    LET remaining_balance == total_cost - amount_paid
    IN Insert(t, "invoices",
              [patient_id |-> patient_id,
               service_provided |-> service_provided,
               total_cost |-> total_cost, amount_paid |-> amount_paid,
               remaining_balance |-> remaining_balance,
               created_at |-> CurrentTimestamp])

\* update_invoice: UPDATE ... SET the five columns WHERE id = ?, the
\* balance computed from the two amounts.
update_invoice(t, invoice_id, patient_id, service_provided, total_cost, amount_paid) ==
    LET remaining_balance == total_cost - amount_paid
    IN [t EXCEPT !.invoices =
           {IF r.id = invoice_id
            THEN [r EXCEPT !.patient_id = patient_id,
                           !.service_provided = service_provided,
                           !.total_cost = total_cost,
                           !.amount_paid = amount_paid,
                           !.remaining_balance = remaining_balance]
            ELSE r : r \in @}]

delete_invoice(t, invoice_id) == Delete(t, "invoices", "id", invoice_id)

\* ------------------------------------------------------------- queries

\* row[i] of a row tuple returned by fetchall (Python counts from 0).
Col(row, i) == row[i + 1]

\* get_patients, get_doctors: SELECT * in the order of the columns.
get_patients(t) == {<<p.id, p.name>> : p \in t.patients}

get_doctors(t) == {<<d.id, d.name>> : d \in t.doctors}

\* SELECT a.*, p.name, d.name FROM appointments a JOIN patients p ON
\* a.patient_id = p.id JOIN doctors d ON a.doctor_id = d.id: one tuple for
\* every appointment with its patient row and its doctor row, the columns of
\* appointments in the order of CREATE TABLE and then the two names.
JoinAppointments(t) ==
    {<<a.id, a.patient_id, a.doctor_id, a.date, a.time, a.notes, a.status,
       a.created_at, p.name, d.name>> :
        <<a, p, d>> \in {x \in t.appointments \X t.patients \X t.doctors :
                            /\ x[1].patient_id = x[2].id
                            /\ x[1].doctor_id = x[3].id}}

\* get_appointments: date_filter is <<>> (None) or <<date>>.  The rows are
\* distinct tuples (the id differs); ORDER BY is the order the list shows
\* them in and is left out.
get_appointments(t, date_filter) ==
    IF date_filter # <<>>
    THEN {row \in JoinAppointments(t) : Col(row, 3) = date_filter[1]}
    ELSE JoinAppointments(t)

\* get_invoices: SELECT i.*, p.name FROM invoices i JOIN patients p ON
\* i.patient_id = p.id.
get_invoices(t) ==
    {<<i.id, i.patient_id, i.service_provided, i.total_cost, i.amount_paid,
       i.remaining_balance, i.created_at, p.name>> :
        <<i, p>> \in {x \in t.invoices \X t.patients :
                         x[1].patient_id = x[2].id}}

\* get_dashboard_stats: SELECT COUNT(*) on the tables themselves.
get_dashboard_stats(t) ==
    [total_patients |-> Cardinality(t.patients),
     today_appointments |->
         Cardinality({a \in t.appointments : a.date = Today})]

\* ---------------------------------------------------------- conversions

\* str(n) and int(s) of a row id.
PyStr(n) == ToString(n)

PyInt(s) == CHOOSE n \in 1..(MaxPatients + MaxDoctors) : PyStr(n) = s

\* str(x) and float(s) of a Python float with an integral value.
PyFloatStr(x) == ToString(x) \o ".0"

PyFloat(s) == CHOOSE x \in Amounts : PyFloatStr(x) = s

\* ------------------------------------------------------- delete_patient

\* delete_patient without its DELETE FROM invoices.
DeletePatientStatements_keeps_invoices ==
    <<[table |-> "medical_history", column |-> "patient_id"],
      [table |-> "treatments", column |-> "patient_id"],
      [table |-> "appointments", column |-> "patient_id"],
      [table |-> "patients", column |-> "id"]>>

\* delete_patient's DELETE statements, in the order it executes them.
DeletePatientStatements ==
    <<[table |-> "medical_history", column |-> "patient_id"],
      [table |-> "treatments", column |-> "patient_id"],
      [table |-> "invoices", column |-> "patient_id"],
      [table |-> "appointments", column |-> "patient_id"],
      [table |-> "patients", column |-> "id"]>>

\* The tables as delete_patient's connection sees them after its first n
\* statements.
RECURSIVE Executed(_, _, _)
Executed(t, patient_id, n) ==
    IF n = 0
    THEN t
    ELSE LET s == DeletePatientStatements[n]
         IN Delete(Executed(t, patient_id, n - 1), s.table, s.column,
                   patient_id)

\* A connection in autocommit mode (isolation_level=None): every statement
\* is committed when it is executed.
Durable_autocommit(committed, view) == view

\* What the database file holds after a statement of a connection opened
\* by sqlite3.connect(db_path): the connection is in an implicit
\* transaction from its first DELETE on, so the committed rows stay as they
\* are until commit().
Durable(committed, view) == committed

NoCall == [pc |-> "idle", patient_id |-> 0, done |-> 0]

\* No database call is in progress.
Calm == dp.pc = "idle"

\* confirm_delete of DentalClinicApp.delete_patient calls
\* db.delete_patient(patient[0]) for a row of the patients list.
DeletePatientCall ==
    /\ Calm
    /\ \E patient \in get_patients(tables) :
         dp' = [pc |-> "txn", patient_id |-> Col(patient, 0), done |-> 0]
    /\ pre' = tables
    /\ UNCHANGED <<lifecycleVars, boot, tables, auth>>

\* cursor.execute of the next DELETE.  It may raise (database locked, I/O
\* error): delete_patient is left by the exception, its connection is
\* dropped without commit and SQLite rolls its transaction back.
DeletePatientExecute ==
    /\ dp.pc = "txn"
    /\ dp.done < Len(DeletePatientStatements)
    /\ \E fails \in BOOLEAN :
         IF fails
         THEN /\ dp' = [dp EXCEPT !.pc = "failed"]
              /\ tables' = tables
         ELSE /\ dp' = [dp EXCEPT !.done = @ + 1]
              /\ tables' = Durable(tables, Executed(tables, dp.patient_id,
                                                    dp.done + 1))
    /\ UNCHANGED <<lifecycleVars, boot, pre, auth>>

\* conn.commit(): the five statements take effect together, or commit
\* raises and the transaction is rolled back.
DeletePatientCommit ==
    /\ dp.pc = "txn"
    /\ dp.done = Len(DeletePatientStatements)
    /\ \E fails \in BOOLEAN :
         IF fails
         THEN /\ dp' = [dp EXCEPT !.pc = "failed"]
              /\ tables' = tables
         ELSE /\ dp' = [dp EXCEPT !.pc = "committed"]
              /\ tables' = Executed(tables, dp.patient_id, dp.done)
    /\ UNCHANGED <<lifecycleVars, boot, pre, auth>>

\* The handler refreshes the list and ends (or ends by the exception).
DeletePatientReturn ==
    /\ dp.pc \in {"committed", "failed"}
    /\ dp' = NoCall
    /\ pre' = EmptyTables
    /\ UNCHANGED <<lifecycleVars, boot, tables, auth>>

\* ------------------------------------------------------------- handlers

\* A handler that commits one change to the tables.
Commit(t) ==
    /\ Calm
    /\ tables' = t
    /\ UNCHANGED <<lifecycleVars, boot, dp, pre, auth>>

\* What a dialog field holds when its button is pressed: the text typed
\* into it (<<text>>), or what the dialog put there (typed = <<>>).
Field(initial, typed) == IF typed = <<>> THEN initial ELSE typed[1]

Typed(texts) == {<<>>} \cup {<<text>> : text \in texts}

\* save_patient: add_patient, then add_medical_history for the new id when
\* one of the three history fields is filled.
save_patient ==
    /\ tables.seq.patients < MaxPatients
    /\ \E name \in PatientNames, history \in BOOLEAN :
         /\ history => tables.seq.medical_history < MaxHistory
         /\ LET added == add_patient(tables, name)
                patient_id == added.seq.patients
            IN Commit(IF history
                      THEN add_medical_history(added, patient_id)
                      ELSE added)

\* save_history of the dialog opened for a row of the patients list.
save_history ==
    /\ tables.seq.medical_history < MaxHistory
    /\ \E patient \in get_patients(tables) :
         Commit(add_medical_history(tables, Col(patient, 0)))

save_doctor ==
    /\ tables.seq.doctors < MaxDoctors
    /\ \E name \in DoctorNames : Commit(add_doctor(tables, name))

\* confirm_delete of DentalClinicApp.delete_doctor, for a row of the list.
DeleteDoctor ==
    \E doctor \in get_doctors(tables) :
        Commit(delete_doctor(tables, Col(doctor, 0)))

\* save_appointment: the dropdown options are the rows of get_patients and
\* get_doctors with key str(id); the chosen keys are read back with int().
save_appointment ==
    /\ tables.seq.appointments < MaxAppointments
    /\ \E patient \in get_patients(tables), doctor \in get_doctors(tables),
          date \in Dates, time \in Times, notes \in NotesTexts :
         Commit(add_appointment(tables,
                                PyInt(PyStr(Col(patient, 0))),
                                PyInt(PyStr(Col(doctor, 0))),
                                date, time, notes))

\* DentalClinicApp.complete_appointment, for a row of the appointments
\* list (a row of get_appointments).
complete_appointment(appointment) ==
    Commit(update_appointment(tables,
                              Col(appointment, 0),
                              Col(appointment, 1),
                              Col(appointment, 2),
                              Col(appointment, 4),
                              Col(appointment, 5),
                              Col(appointment, 6),
                              "completed"))

\* show_edit_appointment_dialog for a row of the appointments list, and its
\* Update button.  The fields are filled from the row; status_chosen is
\* what the user picks in the status dropdown (<<>>: the dropdown is left as
\* the dialog filled it).  Neither dropdown is empty, so Update does not
\* return early.
show_edit_appointment_dialog(appointment, status_chosen) ==
    LET patient_dropdown == PyStr(Col(appointment, 1))
        doctor_dropdown == PyStr(Col(appointment, 2))
        date_field == Col(appointment, 4)
        time_field == Col(appointment, 5)
        notes_field == Col(appointment, 6)
        status_dropdown == Field(Col(appointment, 7), status_chosen)
    IN Commit(update_appointment(tables,
                                 Col(appointment, 0),
                                 PyInt(patient_dropdown),
                                 PyInt(doctor_dropdown),
                                 date_field, time_field, notes_field,
                                 status_dropdown))

CompleteAppointment ==
    \E appointment \in get_appointments(tables, <<>>) :
        complete_appointment(appointment)

EditAppointment ==
    \E appointment \in get_appointments(tables, <<>>),
       status_chosen \in Typed(StatusChoices) :
        show_edit_appointment_dialog(appointment, status_chosen)

\* confirm_delete of DentalClinicApp.delete_appointment.
DeleteAppointment ==
    \E appointment \in get_appointments(tables, <<>>) :
        Commit(delete_appointment(tables, Col(appointment, 0)))

\* save_invoice: float() of the two amount fields (a total above 0), an
\* empty paid field counting as 0.  (update_invoices_list, called after the commit, stops
\* with a TypeError on invoice[6] > 0, a text compared with a number; the
\* row is committed by then.)
save_invoice ==
    /\ tables.seq.invoices < MaxInvoices
    /\ \E patient \in get_patients(tables), service \in Services,
          total \in 1..MaxAmount, paid \in 0..MaxAmount :
         Commit(add_invoice(tables, PyInt(PyStr(Col(patient, 0))), service,
                            total, paid))

\* show_edit_invoice_dialog for a row of get_invoices, and its Update
\* button.  (The list that offers Edit is built by update_invoices_list,
\* which stops on its first row as said above; the dialog is followed for
\* any row it can be called with.)  The fields are filled from the row; paid_typed is the amount the
\* user enters into the paid field (<<>>: left as the dialog filled it).
\* The service field is filled with a number, which the TEXT column stores
\* as its text.  Update returns early on a field that is empty or holds
\* the number 0 (whether the field holds the number or its text is the UI
\* library's business): the early return changes nothing and is a
\* stuttering step.  The amounts followed are capped.
show_edit_invoice_dialog(invoice, paid_typed) ==
    LET patient_dropdown == PyStr(Col(invoice, 1))
        service_field == PyFloatStr(Col(invoice, 3))
        total_field == PyFloatStr(Col(invoice, 4))
        paid_field == PyFloatStr(Col(invoice, 5))
        total == PyFloat(total_field)
        paid == Field(PyFloat(paid_field), paid_typed)
    IN /\ total - paid \in Amounts
       /\ Commit(update_invoice(tables,
                                Col(invoice, 0),
                                PyInt(patient_dropdown),
                                service_field, total, paid))

EditInvoice ==
    \E invoice \in get_invoices(tables), paid_typed \in Typed(0..MaxAmount) :
        show_edit_invoice_dialog(invoice, paid_typed)

\* confirm_delete of DentalClinicApp.delete_invoice.
DeleteInvoice ==
    \E invoice \in get_invoices(tables) :
        Commit(delete_invoice(tables, Col(invoice, 0)))

ClinicInit ==
    /\ tables = EmptyTables
    /\ dp = NoCall
    /\ pre = EmptyTables

\* ---------------------------------------------------------- credentials

\* The texts typed into the username and password fields.
Usernames == {"admin", "sara"}
Passwords == {"admin", "secret", "changed"}

\* verify_user: SELECT * FROM users WHERE username = ? AND password = ?
\* with the hash of the password; True when a row is found.
verify_user(users, username, password) ==
    username \in DOMAIN users /\ users[username] = sha256(password)

\* update_user_credentials: UPDATE users SET password = ? WHERE username = ?
\* with the hash of the new password, on the rows that match (none, when no
\* row has the username), and commit.
update_user_credentials(users, username, new_password) ==
    [u \in DOMAIN users |->
        IF u = username THEN sha256(new_password) ELSE users[u]]

\* The login page of a first install: the users table init_db has made, no
\* user logged in (current_user None is ""), no snack bar, nothing entered.
LoginPage ==
    [users |-> init_db(EmptyStore).users, logged_in |-> FALSE,
     current_user |-> "", snack_bar |-> "", entered |-> <<>>]

Authenticate(next) ==
    /\ auth' = next
    /\ UNCHANGED <<lifecycleVars, boot, tables, dp, pre>>

\* DentalClinicApp.login, the Login button of the login page.
login(username, password) ==
    /\ ~auth.logged_in
    /\ IF username = "" \/ password = ""
       THEN Authenticate([auth EXCEPT
                !.snack_bar = "Please enter username and password"])
       ELSE IF verify_user(auth.users, username, password)
       THEN Authenticate([auth EXCEPT !.logged_in = TRUE,
                                     !.current_user = username])
       ELSE Authenticate([auth EXCEPT
                !.snack_bar = "Invalid username or password"])

\* DentalClinicApp.logout.
logout ==
    /\ auth.logged_in
    /\ Authenticate([auth EXCEPT !.logged_in = FALSE, !.current_user = ""])

\* update_credentials of the settings screen (shown to a logged-in user):
\* username_field is filled with current_user and can be overtyped.
update_credentials(username_field, password_field) ==
    /\ auth.logged_in
    /\ IF password_field = ""
       THEN Authenticate([auth EXCEPT
                !.snack_bar = "Please enter a new password"])
       ELSE Authenticate([auth EXCEPT
                !.users = update_user_credentials(@, username_field,
                                                  password_field),
                !.snack_bar = "Credentials updated successfully",
                !.entered = <<[username |-> username_field,
                               password |-> password_field,
                               users |-> auth.users]>>])

Login ==
    \E username \in Usernames \cup {""}, password \in Passwords \cup {""} :
        login(username, password)

UpdateCredentials ==
    \E typed \in Typed(Usernames), password_field \in Passwords \cup {""} :
        update_credentials(Field(auth.current_user, typed), password_field)

\* ------------------------------------------------------- specification

\* DentalClinicDB.__init__ -> init_db on a fresh install; no backup yet.
LifecycleInit ==
    /\ db = File(Image(InitStore))
    /\ backup = Absent
    /\ app = LoadSettings(InitStore.settings)
    /\ pc = [t \in Threads |-> "idle"]
    /\ op = [t \in Threads |-> "none"]
    /\ pos = [t \in Threads |-> 0]
    /\ ret = [t \in Threads |-> <<>>]
    /\ callDb = [t \in Threads |-> Absent]
    /\ sealed = FALSE
    /\ writes = 0

\* A first install: init_db has run on an empty file, no row in any table.
Init ==
    /\ LifecycleInit
    /\ boot = FirstRun
    /\ ClinicInit
    /\ auth = LoginPage

\* The handlers run on the UI runtime's worker threads: any of them may
\* take its next step.
Next ==
    \/ writes < PoolWrites /\ CrudWrite
    \/ \E t \in Threads : Lifecycle(t)

Spec == Init /\ [][Next]_vars

\* One handler at a time, each run to its end before the next event is
\* handled by worker thread 1: the behaviours of Spec in which no two
\* handlers overlap.
Quiet == \A t \in Threads : Idle(t)

NextSeq ==
    \/ Quiet /\ CrudWrite
    \/ Lifecycle(1)

SpecSeq == Init /\ [][NextSeq]_vars

\* The program starts on whatever file is at db_path.
InitStartup ==
    /\ LifecycleInit
    /\ boot \in {[phase |-> "start", found |-> s, store |-> s] :
                   s \in StoreFiles}
    /\ ClinicInit
    /\ auth = LoginPage

SpecStartup == InitStartup /\ [][Construct]_vars

\* The patients, doctors and appointments screens.  A handler runs to its
\* end before the next one starts.
NextScheduling ==
    \/ save_patient
    \/ save_doctor
    \/ DeleteDoctor
    \/ save_appointment
    \/ CompleteAppointment
    \/ EditAppointment
    \/ DeleteAppointment

SpecScheduling == Init /\ [][NextScheduling]_vars

\* The patients and invoices screens, with the rows a patient can own.
\* While delete_patient's transaction is open no other handler writes:
\* from its first DELETE on the connection holds SQLite's write lock, and a
\* write before that is a write before the call.
NextRecords ==
    \/ save_patient
    \/ save_history
    \/ save_doctor
    \/ save_appointment
    \/ save_invoice
    \/ EditInvoice
    \/ DeleteInvoice
    \/ DeletePatientCall
    \/ DeletePatientExecute
    \/ DeletePatientCommit
    \/ DeletePatientReturn

SpecRecords == Init /\ [][NextRecords]_vars

\* The login page and the credentials section of the settings screen.
NextCredentials ==
    \/ Login
    \/ logout
    \/ UpdateCredentials

SpecCredentials == Init /\ [][NextCredentials]_vars

\* ---------------------------------------------------------------- claims

Importing(t) == op[t] = "import"

Exporting(t) == op[t] = "export"

\* The db method's files are open: the copy is under way or has ended.
Started(t) == pc[t] \in {"copy", "stat", "done"}

Returned(t, b) == pc[t] = "done" /\ ret[t] = <<PyBool(b)>>

\* C1: during a restore the primary store is, at every point, either
\* fully the old version (its content when import_db was called) or fully
\* the new version (the content of the backup artifact).
C1_RestoreIsOldOrNew ==
    \A t \in Threads :
        Importing(t) /\ Started(t) => db = callDb[t] \/ db = backup

\* C2: whenever import_db returns False, the primary store's content
\* equals its content before the call.
C2_FailedRestoreLeavesStore ==
    \A t \in Threads :
        Importing(t) /\ Returned(t, FALSE) => db = callDb[t]

\* C3: whenever export_db returns True, the file at export_path holds
\* exactly the content the primary store had when export_db was called.
C3_BackupEqualsStoreAtCall ==
    \A t \in Threads :
        Exporting(t) /\ Returned(t, TRUE) => backup = callDb[t]

\* C4: whenever import_db returns True, the primary store's content equals
\* the content of the backup artifact.
C4_RestoreEqualsArtifact ==
    \A t \in Threads :
        Importing(t) /\ Returned(t, TRUE) => db = backup

\* C5: while export_db or import_db is copying, no domain write commits
\* on the primary store (the copy is serialized against CRUD writes).
C5_NoWriteDuringCopy ==
    [][(\E t \in Threads : pc[t] = "copy") => writes' = writes]_vars

\* C6: no two lifecycle operations execute at the same time.
C6_NoOverlap ==
    Cardinality({t \in Threads : pc[t] \in {"copy", "stat"}}) <= 1

\* C7: once a backup has succeeded, the artifact it produced is never
\* changed or overwritten by a later backup.
C7_ArtifactNeverMutated ==
    [][sealed => backup' = backup]_vars

\* The error kinds of the specification's taxonomy, and "Ok" for success.
OutcomeKinds ==
    {"Ok", "ConfigError", "CryptoUnavailable", "InvalidKey",
     "DecryptionAuthFailure", "IOError", "ExportError",
     "ImportSchemaError", "ImportInsertError"}

\* C8: every value export_db or import_db returns is a structured
\* outcome: a success flag, a machine-checkable kind and a message.
C8_StructuredOutcome ==
    \A t \in Threads :
        ret[t] # <<>> =>
            /\ {"ok", "kind", "message"} \subseteq DOMAIN ret[t][1]
            /\ ret[t][1].kind \in OutcomeKinds

DocumentedDefaults ==
    [language |-> "English", dark_mode |-> "False",
     encrypt_backups |-> "False"]

\* C11: after initialization on an empty store every recognized setting has
\* its default value (language, dark_mode, the default user name,
\* encrypt_backups = false, no encryption_key), and initialization keeps
\* the value of every setting that already exists.
C11_DefaultsCreated ==
    boot.phase = "ready" =>
        /\ boot.found = EmptyStore =>
              /\ \A k \in DOMAIN DocumentedDefaults :
                     get_setting(boot.store, k) = <<DocumentedDefaults[k]>>
              /\ "admin" \in DOMAIN boot.store.users
              /\ get_setting(boot.store, "encryption_key") = <<>>
        /\ \A k \in DOMAIN boot.found.settings :
               get_setting(boot.store, k) = <<boot.found.settings[k]>>

\* The stored row of an appointment or an invoice.
Appointment(t, id) == CHOOSE a \in t.appointments : a.id = id

Invoice(t, id) == CHOOSE i \in t.invoices : i.id = id

\* C13: complete_appointment on a row of get_appointments sets the status
\* of that appointment to "completed" and leaves its patient_id, doctor_id,
\* date, time and notes, and every other appointment, as they were.
C13_CompleteSetsOnlyStatus ==
    [][\A appointment \in get_appointments(tables, <<>>) :
          complete_appointment(appointment) =>
              tables'.appointments =
                  {IF a.id = Col(appointment, 0)
                   THEN [a EXCEPT !.status = "completed"]
                   ELSE a : a \in tables.appointments}]_vars

\* C14: the edit-appointment dialog opened for an appointment and updated
\* without a change leaves date, time, notes and status of the stored
\* appointment as they were.
C14_EditAppointmentUnchanged ==
    [][\A appointment \in get_appointments(tables, <<>>) :
          show_edit_appointment_dialog(appointment, <<>>) =>
              LET before == Appointment(tables, Col(appointment, 0))
                  after == Appointment(tables', Col(appointment, 0))
              IN /\ after.date = before.date
                 /\ after.time = before.time
                 /\ after.notes = before.notes
                 /\ after.status = before.status]_vars

\* C15: the edit-invoice dialog opened for an invoice and updated without a
\* change leaves service_provided, total_cost, amount_paid and
\* remaining_balance of the stored invoice as they were.
C15_EditInvoiceUnchanged ==
    [][\A invoice \in get_invoices(tables) :
          show_edit_invoice_dialog(invoice, <<>>) =>
              LET before == Invoice(tables, Col(invoice, 0))
                  after == Invoice(tables', Col(invoice, 0))
              IN /\ after.service_provided = before.service_provided
                 /\ after.total_cost = before.total_cost
                 /\ after.amount_paid = before.amount_paid
                 /\ after.remaining_balance = before.remaining_balance]_vars

PatientIds(t) == {p.id : p \in t.patients}

DoctorIds(t) == {d.id : d \in t.doctors}

\* C16: in every reachable state the patient_id and the doctor_id of every
\* appointment and the patient_id of every invoice and of every medical
\* history record are ids of existing rows.
C16_ReferentialIntegrity ==
    /\ \A a \in tables.appointments :
           a.patient_id \in PatientIds(tables) /\ a.doctor_id \in DoctorIds(tables)
    /\ \A i \in tables.invoices : i.patient_id \in PatientIds(tables)
    /\ \A h \in tables.medical_history : h.patient_id \in PatientIds(tables)

\* C17: get_appointments without a filter returns every appointment, each
\* once, so the appointments of today among its rows are as many as
\* today_appointments of get_dashboard_stats.
C17_ListMatchesDashboard ==
    LET listed == get_appointments(tables, <<>>)
    IN /\ {Col(row, 0) : row \in listed} = {a.id : a \in tables.appointments}
       /\ Cardinality(listed) = Cardinality(tables.appointments)
       /\ Cardinality({row \in listed : Col(row, 3) = Today})
              = get_dashboard_stats(tables).today_appointments

OwnedTables == {"medical_history", "treatments", "invoices", "appointments"}

\* C18: after delete_patient(p) there is no patients row with id p and no
\* medical_history, treatments, invoices or appointments row with
\* patient_id p; the rows of other patients and all doctors are as they
\* were when it was called.
C18_DeletePatientFrame ==
    dp.pc = "committed" =>
        /\ \A r \in tables.patients : r.id # dp.patient_id
        /\ \A table \in OwnedTables :
               \A r \in tables[table] : r.patient_id # dp.patient_id
        /\ \A r \in pre.patients : r.id # dp.patient_id => r \in tables.patients
        /\ \A table \in OwnedTables :
               \A r \in pre[table] :
                   r.patient_id # dp.patient_id => r \in tables[table]
        /\ \A table \in OwnedTables \cup {"patients"} :
               tables[table] \subseteq pre[table]
        /\ tables.doctors = pre.doctors

\* C18's case: delete_patient has committed for a patient who had a medical
\* history record, an invoice and an appointment, and another patient's
\* appointment is still there.
C18_Witness ==
    /\ dp.pc = "committed"
    /\ \A table \in {"medical_history", "invoices", "appointments"} :
           \E r \in pre[table] : r.patient_id = dp.patient_id
    /\ \E a \in tables.appointments : a.patient_id # dp.patient_id

\* C19: delete_patient is all-or-nothing: while it runs and when it fails
\* the committed tables are those of the call, and when it has committed
\* all five statements have taken effect.
C19_DeletePatientAtomic ==
    /\ dp.pc \in {"txn", "failed"} => tables = pre
    /\ dp.pc = "committed" =>
           tables = Executed(pre, dp.patient_id, Len(DeletePatientStatements))

\* C19's case: a statement failed after the connection had deleted the
\* patient's medical history record and invoice.
C19_Witness ==
    /\ dp.pc = "failed"
    /\ dp.done >= 3
    /\ \A table \in {"medical_history", "invoices"} :
           \E r \in tables[table] : r.patient_id = dp.patient_id

C21_ReportedUpdateVerifies ==
    auth.snack_bar = "Credentials updated successfully" =>
        LET e == auth.entered[1]
        IN /\ verify_user(auth.users, e.username, e.password)
           /\ \A previous \in Passwords \ {e.password} :
                  verify_user(e.users, e.username, previous)
                      => ~verify_user(auth.users, e.username, previous)

====
